---- MODULE Spec2Model ----
(***************************************************************************)
(* Geofence proximity tracker, src/src/routes/+page.svelte.                *)
(*                                                                         *)
(* The component's script block is modelled as a state machine: one        *)
(* variable per `let` of the script, one action per event handler          *)
(* (button click, bound input, platform callback, promise continuation,    *)
(* lifecycle hook).  Each action includes the run of the reactive          *)
(* declarations ($: lines 33-55) that Svelte performs before the next      *)
(* event is handled.                                                       *)
(*                                                                         *)
(* Numbers.  JavaScript doubles are modelled in fixed point:               *)
(*   - an angle in degrees is an integer count of 1/DegUnit degree;        *)
(*   - an angle in radians, and a value of sin/cos, is an integer count of *)
(*     1/S;                                                                *)
(*   - a distance is an integer count of metres.                           *)
(* Math.sin, Math.cos, Math.sqrt and Math.atan2 are computed by series on  *)
(* these integers.  The resolution is 1e-4 rad (about 640 m on the         *)
(* ground), so the coordinates the model draws are either equal or far     *)
(* apart; on those the model and the doubles agree on every comparison     *)
(* with the 15 m radius.                                                   *)
(*                                                                         *)
(* Not modelled: the Leaflet map (lines 159-204), which only draws, and the *)
(* "High accuracy" checkbox: highAccuracy keeps its initial value.          *)
(***************************************************************************)
EXTENDS Integers, Sequences, FiniteSets, TLC

\* ------------------------------------------------------------------------
\* Bounds of the model

\* watchPosition calls the model follows (each start registers one watch).
MaxWatches == 2
\* DeviceOrientationEvent.requestPermission() promises pending at once.
MaxCompassRequests == 1

\* ------------------------------------------------------------------------
\* null and optional values

Null == << >>
Some(v) == << v >>

\* a ?? b
NullishOr(a, b) == IF a = Null THEN b ELSE a[1]

\* ------------------------------------------------------------------------
\* Fixed-point arithmetic

\* Units per degree.
DegUnit == 10 * 10
\* Units per radian, and per 1.0 of a sine or cosine.
S == 10 * 1000
\* Math.PI, in 1/S.
Pi == 31416
HalfPi == Pi \div 2
TwoPi == 2 * Pi
\* 360 degrees.
Deg360 == 360 * DegUnit
\* JavaScript's Infinity: above every distance.
Infinity == 2147483647

Abs(x) == IF x < 0 THEN -x ELSE x
Sgn(x) == IF x < 0 THEN -1 ELSE IF x > 0 THEN 1 ELSE 0

\* a / b rounded to the nearest integer, symmetric about zero (b > 0).
RDiv(a, b) == Sgn(a) * ((Abs(a) + b \div 2) \div b)

\* JavaScript's a % n: the remainder has the sign of the dividend.
JsRem(a, n) == IF a >= 0 THEN a % n ELSE -((-a) % n)

\* An angle brought into (-Pi, Pi].
WrapPi(x) == LET m == x % TwoPi IN IF m > Pi THEN m - TwoPi ELSE m

\* sin r for |r| <= Pi/2: r(1 - r2/6 (1 - r2/20 (1 - r2/42 (1 - r2/72)))).
SinSeries(r) ==
  LET r2 == RDiv(r * r, S)
      t4 == S - RDiv(r2, 72)
      t3 == S - RDiv(r2 * t4, 42 * S)
      t2 == S - RDiv(r2 * t3, 20 * S)
      t1 == S - RDiv(r2 * t2, 6 * S)
  IN  RDiv(r * t1, S)

\* cos r for |r| <= Pi/2: 1 - r2/2 (1 - r2/12 (1 - r2/30 (1 - r2/56 (1 - r2/90)))).
CosSeries(r) ==
  LET r2 == RDiv(r * r, S)
      t5 == S - RDiv(r2, 90)
      t4 == S - RDiv(r2 * t5, 56 * S)
      t3 == S - RDiv(r2 * t4, 30 * S)
      t2 == S - RDiv(r2 * t3, 12 * S)
  IN  S - RDiv(r2 * t2, 2 * S)

\* Math.sin
Sin(x) ==
  LET r == WrapPi(x)
  IN  IF r > HalfPi THEN SinSeries(Pi - r)
      ELSE IF r < -HalfPi THEN SinSeries(-Pi - r)
      ELSE SinSeries(r)

\* Math.cos
Cos(x) ==
  LET r == Abs(WrapPi(x))
  IN  IF r > HalfPi THEN -CosSeries(Pi - r) ELSE CosSeries(r)

\* The largest f in lo..hi with f * f <= n, by bisection.
RECURSIVE SqrtSearch(_, _, _)
SqrtSearch(n, lo, hi) ==
  IF lo >= hi THEN lo
  ELSE LET mid == (lo + hi + 1) \div 2
       IN  IF mid * mid <= n THEN SqrtSearch(n, mid, hi)
           ELSE SqrtSearch(n, lo, mid - 1)

\* Math.sqrt of v in 0..S (in 1/S), to the nearest 1/S.
Sqrt(v) ==
  LET n == v * S
      f == SqrtSearch(n, 0, 2 * S)
  IN  IF n - f * f > f THEN f + 1 ELSE f

\* atan z for |z| <= tan(Pi/8): z(1 - z2/3 (1 - 3 z2/5 (1 - 5 z2/7 (1 - 7 z2/9)))).
AtanSeries(z) ==
  LET z2 == RDiv(z * z, S)
      t4 == S - RDiv(7 * z2, 9)
      t3 == S - RDiv(5 * z2 * t4, 7 * S)
      t2 == S - RDiv(3 * z2 * t3, 5 * S)
      t1 == S - RDiv(z2 * t2, 3 * S)
  IN  RDiv(z * t1, S)

\* atan t for t in 0..S: atan t = Pi/4 + atan((t - 1)/(t + 1)) above tan(Pi/8).
Atan(t) ==
  IF 10 * t > 4142 * (S \div 1000)
    THEN RDiv(Pi, 4) + AtanSeries(RDiv((t - S) * S, t + S))
    ELSE AtanSeries(t)

\* Math.atan2(y, x), in (-Pi, Pi].
Atan2(y, x) ==
  IF x = 0 /\ y = 0 THEN 0
  ELSE LET a == Abs(y)
           b == Abs(x)
           th == IF a <= b THEN Atan(RDiv(a * S, b))
                 ELSE HalfPi - Atan(RDiv(b * S, a))
       IN  IF x >= 0 THEN Sgn(y) * th
           ELSE IF y < 0 THEN -(Pi - th) ELSE Pi - th

\* ------------------------------------------------------------------------
\* Utilities (lines 217-254)

\* const toRad = (d) => (d * Math.PI) / 180
toRad(d) == RDiv(d * Pi, 180 * DegUnit)

\* const toDeg = (r) => (r * 180) / Math.PI
toDeg(r) == RDiv(r * 180 * DegUnit, Pi)

\* const R = 6371000
R == 6371000

\* Haversine distance in metres.
haversineMeters(lat1, lon1, lat2, lon2) ==
  LET dLat == toRad(lat2 - lat1)
      dLon == toRad(lon2 - lon1)
      sLat == Sin(RDiv(dLat, 2))
      sLon == Sin(RDiv(dLon, 2))
      a == RDiv(sLat * sLat, S)
           + RDiv(RDiv(Cos(toRad(lat1)) * Cos(toRad(lat2)), S)
                    * RDiv(sLon * sLon, S), S)
      c == 2 * Atan2(Sqrt(a), Sqrt(S - a))
  IN  RDiv((R \div 1000) * c, S \div 1000)

\* Initial bearing, degrees from north, clockwise.
initialBearing(lat1, lon1, lat2, lon2) ==
  LET p1 == toRad(lat1)
      p2 == toRad(lat2)
      dl == toRad(lon2 - lon1)
      y == RDiv(Sin(dl) * Cos(p2), S)
      x == RDiv(Cos(p1) * Sin(p2), S)
           - RDiv(RDiv(Sin(p1) * Cos(p2), S) * Cos(dl), S)
  IN  JsRem(toDeg(Atan2(y, x)) + Deg360, Deg360)

MsgNotSupported == "Geolocation is not supported in this browser."
MsgPermissionDenied == "Permission denied. Please allow location access."
MsgPositionUnavailable ==
  "Position unavailable. Try moving to an open area or check your connection."
MsgTimeout == "Location request timed out. Try again."
MsgUnknown == "An unknown geolocation error occurred."

\* GeolocationPositionError codes.
PERMISSION_DENIED == 1
POSITION_UNAVAILABLE == 2
TIMEOUT == 3

\* humanizeGeoError without its switch: every error reads as unknown.
humanizeGeoErrorUncategorised(code) == MsgUnknown

humanizeGeoError(code) ==
  CASE code = PERMISSION_DENIED -> MsgPermissionDenied
    [] code = POSITION_UNAVAILABLE -> MsgPositionUnavailable
    [] code = TIMEOUT -> MsgTimeout
    [] OTHER -> MsgUnknown

\* Math.round(a / b), b > 0: floor(a / b + 1/2).
MathRoundDiv(a, b) == (2 * a + b) \div (2 * b)

\* const dirs = ['N','NNE',...,'NNW']
dirs ==
  << "N", "NNE", "NE", "ENE", "E", "ESE", "SE", "SSE",
     "S", "SSW", "SW", "WSW", "W", "WNW", "NW", "NNW" >>

\* 22.5 degrees.
Sector == (45 * DegUnit) \div 2

\* degToCompass without the % 16.
degToCompassUnwrapped(d) ==
  IF d = Null THEN "-"
  ELSE LET i == MathRoundDiv(d[1], Sector)
       IN  IF i \in 0..15 THEN dirs[i + 1] ELSE "undefined"

\* function degToCompass(d); "-" stands for the dash returned for null, and an
\* index outside dirs reads undefined.
degToCompass(d) ==
  IF d = Null THEN "-"
  ELSE LET i == JsRem(MathRoundDiv(d[1], Sector), 16)
       IN  IF i \in 0..15 THEN dirs[i + 1] ELSE "undefined"

\* ------------------------------------------------------------------------
\* State

VARIABLES
  \* the script's variables (lines 5-28)
  currentPosition,    \* Null, or Some(the GeolocationPosition last assigned)
  errorMessage,       \* Null, or Some(message)
  permissionState,    \* 'unknown' | 'prompt' | 'granted' | 'denied'
  watching,
  target,             \* [lat, lon]
  watchId,            \* Null, or Some(id returned by watchPosition)
  highAccuracy,
  distanceMeters,     \* Null, or Some(metres)
  insideZone,
  bearingDeg,         \* Null, or Some(degrees)
  headingDeg,         \* Null, or Some(degrees)
  turnDeg,            \* Null, or Some(degrees)
  usingAbs,
  \* the platform
  caps,               \* what the browser offers, fixed for the session
  tables,             \* haversineMeters and initialBearing, evaluated once
  geoWatches,         \* the watches registered with navigator.geolocation
  nextWatchId,        \* the last id watchPosition returned
  platformPermission, \* the grant state the permission subsystem holds
  permQueries,        \* checkPermission() runs waiting at their await
  permHandlers,       \* a PermissionStatus has its onchange set
  orientationListening, \* onDOA and onDO are registered on window
  compassRequests,    \* requestPermission() promises not yet settled
  lifecycle,          \* "created" | "mounted" | "destroyed"
  \* the compass label of the template (line 329)
  compassArg,         \* Null, or the value handed to degToCompass
  compassLabel,       \* Null, or Some(the label it returned)
  \* history
  stopped,            \* stopWatching() has returned and no start followed
  clearWatchCalled,   \* that stopWatching() called clearWatch
  lastReading,        \* Null, or Some(the reading last delivered)
  lastHeadingEvent,   \* Null, or Some(the last event that carried a heading)
  targetFromCurrent   \* useCurrentAsTarget() set the target; no reading or edit since

progVars == << currentPosition, errorMessage, permissionState, watching, target,
               watchId, highAccuracy, usingAbs >>
derivedVars == << distanceMeters, insideZone, bearingDeg, headingDeg, turnDeg >>
geoVars == << geoWatches, nextWatchId >>
permVars == << platformPermission, permQueries, permHandlers >>
compassVars == << orientationListening, compassRequests >>
historyVars == << stopped, clearWatchCalled, lastReading, lastHeadingEvent,
                  targetFromCurrent >>
fixedVars == << caps, tables >>
labelVars == << compassArg, compassLabel >>
vars == << progVars, derivedVars, fixedVars, geoVars, permVars, compassVars,
           lifecycle, labelVars, historyVars >>

\* ------------------------------------------------------------------------
\* What the platform and the user can supply

\* let target = { lat: 42.05913363079434, lon: 19.51725368912721 }
DefaultTarget == [lat |-> RDiv(4205913, 1000), lon |-> RDiv(1951725, 1000)]

\* Latitudes and longitudes of readings and of the target fields.
Latitudes == { DefaultTarget.lat, 0 }
Longitudes == { DefaultTarget.lon, 0 }

\* coords.heading: null, NaN, or degrees in [0, 360).
NoHeading == [type |-> "null", value |-> 0]
NaNHeading == [type |-> "NaN", value |-> 0]
Number(v) == [type |-> "number", value |-> v]

\* The GeolocationPosition objects the platform delivers.
Readings ==
  { [latitude |-> DefaultTarget.lat, longitude |-> DefaultTarget.lon,
     heading |-> NoHeading],
    [latitude |-> 0, longitude |-> 0, heading |-> NaNHeading],
    [latitude |-> 0, longitude |-> DefaultTarget.lon,
     heading |-> Number(350 * DegUnit)] }

\* The DeviceOrientationEvents the platform fires: webkitCompassHeading in
\* [0, 360] or absent, alpha in [0, 360) or null.
OrientationEvents ==
  { [webkitCompassHeading |-> Some(Deg360), alpha |-> Some(10 * DegUnit),
     absolute |-> FALSE],
    [webkitCompassHeading |-> Null, alpha |-> Some(270 * DegUnit),
     absolute |-> TRUE],
    [webkitCompassHeading |-> Null, alpha |-> Some(270 * DegUnit),
     absolute |-> FALSE],
    [webkitCompassHeading |-> Null, alpha |-> Null, absolute |-> FALSE] }

ErrorCodes == { PERMISSION_DENIED, POSITION_UNAVAILABLE, TIMEOUT }
GrantStates == { "prompt", "granted", "denied" }

\* What a browser can offer:
\*   geolocation  'geolocation' in navigator
\*   permissions  what navigator.permissions?.query?.() gives: a status, or
\*                undefined (no Permissions API), or a rejected promise
\*   orientation  "none": no sensor, no event is ever fired;
\*                "ungated": events are fired to any listener;
\*                "gated": DeviceOrientationEvent.requestPermission exists
Capabilities ==
  [ geolocation : BOOLEAN,
    permissions : { "status", "undefined", "rejects" },
    orientation : { "none", "ungated", "gated" } ]

\* The browsers the model follows.  The permission code (lines 90-98) and the
\* orientation code (lines 107-157) share no variable, so no profile offers
\* both a permission status and an orientation sensor.
Profiles ==
  { [geolocation |-> TRUE, permissions |-> "status", orientation |-> "none"],
    [geolocation |-> TRUE, permissions |-> "undefined", orientation |-> "gated"],
    [geolocation |-> FALSE, permissions |-> "rejects", orientation |-> "ungated"],
    [geolocation |-> FALSE, permissions |-> "status", orientation |-> "gated"] }

\* ------------------------------------------------------------------------
\* Reactive declarations (lines 33-55)

\* 15 m zone
ZoneRadius == 15

\* haversineMeters and initialBearing on every pair of coordinates.  TLC
\* evaluates an operator anew at each use; the state carries the values so
\* that they are computed once.
MathTables ==
  [ distance |->
      [ c \in Latitudes \X Longitudes \X Latitudes \X Longitudes |->
          haversineMeters(c[1], c[2], c[3], c[4]) ],
    bearing |->
      [ c \in Latitudes \X Longitudes \X Latitudes \X Longitudes |->
          initialBearing(c[1], c[2], c[3], c[4]) ] ]

\* distanceMeters with 0 in place of null.
DistanceOfZeroDefault(cp, tgt) ==
  IF cp # Null
    THEN Some(tables.distance[<< cp[1].latitude, cp[1].longitude, tgt.lat, tgt.lon >>])
    ELSE Some(0)

\* $: distanceMeters = currentPosition ? haversineMeters(...) : null
DistanceOf(cp, tgt) ==
  IF cp # Null
    THEN Some(tables.distance[<< cp[1].latitude, cp[1].longitude, tgt.lat, tgt.lon >>])
    ELSE Null

\* insideZone with (distanceMeters ?? 0).
InsideZoneOfNullAsZero(d) == NullishOr(d, 0) <= ZoneRadius

\* $: insideZone = (distanceMeters ?? Infinity) <= 15
InsideZoneOf(d) == NullishOr(d, Infinity) <= ZoneRadius

\* $: bearingDeg = currentPosition ? initialBearing(...) : null
BearingOf(cp, tgt) ==
  IF cp # Null
    THEN Some(tables.bearing[<< cp[1].latitude, cp[1].longitude, tgt.lat, tgt.lon >>])
    ELSE Null

\* turnDeg without the % 360.
TurnOfUnwrapped(b, h) ==
  IF b # Null /\ h # Null
    THEN Some(b[1] - h[1] + Deg360)
    ELSE Null

\* $: turnDeg = (bearingDeg != null && headingDeg != null) ? ((b - h + 360) % 360) : null
TurnOf(b, h) ==
  IF b # Null /\ h # Null
    THEN Some(JsRem(b[1] - h[1] + Deg360, Deg360))
    ELSE Null

\* The reactive block run with the new position, target and heading.
Reactive(cp, tgt, hd) ==
  /\ distanceMeters' = DistanceOf(cp, tgt)
  /\ insideZone' = InsideZoneOf(distanceMeters')
  /\ bearingDeg' = BearingOf(cp, tgt)
  /\ turnDeg' = TurnOf(bearingDeg', hd)

\* ------------------------------------------------------------------------
\* Initial state: the script has run, the reactive block has run once

ScriptInit ==
  /\ currentPosition = Null
  /\ errorMessage = Null
  /\ permissionState = "unknown"
  /\ watching = FALSE
  /\ target = DefaultTarget
  /\ watchId = Null
  /\ highAccuracy = TRUE
  /\ distanceMeters = Null
  /\ insideZone = FALSE
  /\ bearingDeg = Null
  /\ headingDeg = Null
  /\ turnDeg = Null
  /\ usingAbs = FALSE
  /\ caps \in Profiles
  /\ tables = MathTables
  /\ geoWatches = {}
  /\ nextWatchId = 0
  /\ platformPermission \in
       IF caps.permissions = "status" THEN GrantStates ELSE { "prompt" }
  /\ permQueries = 0
  /\ permHandlers = FALSE
  /\ orientationListening = FALSE
  /\ compassRequests = 0
  /\ lifecycle = "created"
  /\ stopped = FALSE
  /\ clearWatchCalled = FALSE
  /\ lastReading = Null
  /\ lastHeadingEvent = Null
  /\ targetFromCurrent = FALSE

\* The label is not followed in the behaviours of the component.
Init ==
  /\ ScriptInit
  /\ compassArg = Null
  /\ compassLabel = Null

\* ------------------------------------------------------------------------
\* Geolocation (lines 57-98)

\* async function checkPermission(), up to its await.  With no Permissions
\* API the awaited value is undefined and the continuation runs before the
\* next event; otherwise the run waits for the query to settle.
checkPermission ==
  IF caps.permissions = "undefined"
    THEN permissionState' = "unknown" /\ UNCHANGED permQueries
    ELSE permQueries' = permQueries + 1 /\ UNCHANGED permissionState

\* startWatching() without the test of 'geolocation' in navigator.
startWatchingUnchecked ==
  /\ errorMessage' = Null
  /\ checkPermission
  /\ watching' = TRUE
  /\ nextWatchId' = nextWatchId + 1
  /\ geoWatches' = geoWatches \cup
       { [id |-> nextWatchId', enableHighAccuracy |-> highAccuracy] }
  /\ watchId' = Some(nextWatchId')

\* function startWatching()
startWatching ==
  IF ~caps.geolocation
    THEN /\ errorMessage' = Some(MsgNotSupported)
         /\ UNCHANGED << permissionState, permQueries, watching, watchId,
                         geoWatches, nextWatchId >>
    ELSE /\ errorMessage' = Null
         /\ checkPermission
         /\ watching' = TRUE
         /\ nextWatchId' = nextWatchId + 1
         /\ geoWatches' = geoWatches \cup
              { [id |-> nextWatchId', enableHighAccuracy |-> highAccuracy] }
         /\ watchId' = Some(nextWatchId')

\* A success callback that keeps the first position it was given.
onPositionFirstOnly(pos) ==
  /\ currentPosition' = IF currentPosition = Null THEN Some(pos)
                        ELSE currentPosition
  /\ headingDeg' =
       IF pos.heading.type = "number"
         THEN Some(JsRem(pos.heading.value + Deg360, Deg360))
         ELSE headingDeg
  /\ Reactive(currentPosition', target, headingDeg')

\* The success callback passed to watchPosition: (pos) => { ... }
onPosition(pos) ==
  /\ currentPosition' = Some(pos)
  /\ headingDeg' =
       IF pos.heading.type \in { "number", "NaN" } /\ pos.heading.type # "NaN"
         THEN Some(JsRem(pos.heading.value + Deg360, Deg360))
         ELSE headingDeg
  /\ Reactive(currentPosition', target, headingDeg')

\* The error callback passed to watchPosition: (err) => { ... }
onGeoError(code) ==
  /\ errorMessage' = Some(humanizeGeoError(code))
  /\ watching' = FALSE

\* stopWatching() without the test of watchId.
stopWatchingUnguarded ==
  /\ geoWatches' = { w \in geoWatches : Some(w.id) # watchId }
  /\ clearWatchCalled' = TRUE
  /\ watchId' = Null
  /\ watching' = FALSE

\* stopWatching() without the clearWatch call.
stopWatchingKeepsWatch ==
  /\ clearWatchCalled' = FALSE
  /\ watchId' = Null
  /\ watching' = FALSE
  /\ UNCHANGED geoWatches

\* function stopWatching()
stopWatching ==
  /\ IF watchId # Null
       THEN /\ geoWatches' = { w \in geoWatches : w.id # watchId[1] }
            /\ clearWatchCalled' = TRUE
            /\ watchId' = Null
       ELSE /\ clearWatchCalled' = FALSE
            /\ UNCHANGED << geoWatches, watchId >>
  /\ watching' = FALSE

\* useCurrentAsTarget() copying only the latitude.
useCurrentAsTargetLatOnly ==
  IF currentPosition = Null
    THEN UNCHANGED << target, distanceMeters, insideZone, bearingDeg, turnDeg >>
    ELSE /\ target' = [ target EXCEPT !.lat = currentPosition[1].latitude ]
         /\ Reactive(currentPosition, target', headingDeg)

\* function useCurrentAsTarget()
useCurrentAsTarget ==
  IF currentPosition = Null
    THEN UNCHANGED << target, distanceMeters, insideZone, bearingDeg, turnDeg >>
    ELSE /\ target' = [ lat |-> currentPosition[1].latitude,
                        lon |-> currentPosition[1].longitude ]
         /\ Reactive(currentPosition, target', headingDeg)

\* ------------------------------------------------------------------------
\* Device orientation (lines 107-157)

\* (x + 360) % 360 of a compass heading
NormalizeHeading(h) == JsRem(h + Deg360, Deg360)

\* (360 - alpha + 360) % 360
AlphaToHeading(alpha) == JsRem(Deg360 - alpha + Deg360, Deg360)

\* function handleOrientation(e, absoluteEvent)
handleOrientation(e, absoluteEvent) ==
  /\ IF e.webkitCompassHeading # Null
       THEN /\ headingDeg' = Some(NormalizeHeading(e.webkitCompassHeading[1]))
            /\ UNCHANGED usingAbs
     ELSE IF absoluteEvent /\ e.alpha # Null
       THEN /\ usingAbs' = TRUE
            /\ headingDeg' = Some(AlphaToHeading(e.alpha[1]))
     ELSE IF ~absoluteEvent /\ e.absolute = TRUE /\ e.alpha # Null
       THEN /\ usingAbs' = TRUE
            /\ headingDeg' = Some(AlphaToHeading(e.alpha[1]))
     ELSE IF e.alpha # Null
       THEN /\ usingAbs' = FALSE
            /\ headingDeg' = Some(AlphaToHeading(e.alpha[1]))
     ELSE UNCHANGED << headingDeg, usingAbs >>
  /\ Reactive(currentPosition, target, headingDeg')

\* function enableCompass()
enableCompass ==
  IF caps.orientation = "gated"
    THEN /\ orientationListening' = FALSE
         /\ compassRequests' = compassRequests + 1
    ELSE /\ orientationListening' = TRUE
         /\ UNCHANGED compassRequests

\* ------------------------------------------------------------------------
\* Events

\* onMount(() => { checkPermission(); ensureMap(); })
Mount ==
  /\ lifecycle = "created"
  /\ lifecycle' = "mounted"
  /\ checkPermission
  /\ UNCHANGED << currentPosition, errorMessage, watching, target, watchId,
                  highAccuracy, usingAbs, derivedVars, fixedVars, labelVars, geoVars,
                  platformPermission, permHandlers, compassVars, historyVars >>

\* The Start button, rendered while !watching.
StartClick ==
  /\ lifecycle = "mounted"
  /\ ~watching
  /\ nextWatchId < MaxWatches
  /\ startWatching
  /\ stopped' = FALSE
  /\ clearWatchCalled' = FALSE
  /\ UNCHANGED << currentPosition, target, highAccuracy, usingAbs, derivedVars,
                  fixedVars, labelVars, platformPermission, permHandlers, compassVars,
                  lifecycle, lastReading, lastHeadingEvent,
                  targetFromCurrent >>

\* The Stop button, rendered while watching.
StopClick ==
  /\ lifecycle = "mounted"
  /\ watching
  /\ stopWatching
  /\ stopped' = TRUE
  /\ UNCHANGED << currentPosition, errorMessage, permissionState, target,
                  highAccuracy, usingAbs, derivedVars, fixedVars, labelVars, nextWatchId,
                  permVars, compassVars, lifecycle, lastReading,
                  lastHeadingEvent, targetFromCurrent >>

\* The platform delivers a reading to a registered watch.
GeoSuccess ==
  \E w \in geoWatches, pos \in Readings :
    /\ platformPermission # "denied"
    /\ onPosition(pos)
    /\ lastReading' = Some(pos)
    /\ lastHeadingEvent' =
         IF pos.heading.type = "number"
           THEN Some([ source |-> "coords", value |-> pos.heading.value ])
           ELSE lastHeadingEvent
    /\ targetFromCurrent' = FALSE
    /\ UNCHANGED << errorMessage, permissionState, watching, target, watchId,
                    highAccuracy, usingAbs, fixedVars, labelVars, geoVars, permVars,
                    compassVars, lifecycle, stopped, clearWatchCalled >>

\* The platform reports an error to a registered watch.  A denied permission
\* ends the watch on the platform's side; the other errors leave it running.
GeoErrorOn(w, code) ==
  /\ w \in geoWatches
  /\ code = PERMISSION_DENIED => platformPermission # "granted"
  /\ onGeoError(code)
  /\ geoWatches' = IF code = PERMISSION_DENIED THEN geoWatches \ { w }
                   ELSE geoWatches
  /\ UNCHANGED << currentPosition, permissionState, target, watchId,
                  highAccuracy, usingAbs, derivedVars, fixedVars, labelVars, nextWatchId,
                  permVars, compassVars, lifecycle, historyVars >>

GeoError == \E w \in geoWatches, code \in ErrorCodes : GeoErrorOn(w, code)

\* checkPermission() after its await, the query having given a status:
\* permissionState = status.state; status.onchange = ...
PermissionStatusResolved ==
  /\ permQueries > 0
  /\ caps.permissions = "status"
  /\ permQueries' = permQueries - 1
  /\ permissionState' = platformPermission
  /\ permHandlers' = TRUE
  /\ UNCHANGED << currentPosition, errorMessage, watching, target, watchId,
                  highAccuracy, usingAbs, derivedVars, fixedVars, labelVars, geoVars,
                  platformPermission, compassVars, lifecycle, historyVars >>

\* checkPermission() after its await, the query having failed: catch { ... }
PermissionQueryRejected ==
  /\ permQueries > 0
  /\ caps.permissions = "rejects"
  /\ permQueries' = permQueries - 1
  /\ permissionState' = "unknown"
  /\ UNCHANGED << currentPosition, errorMessage, watching, target, watchId,
                  highAccuracy, usingAbs, derivedVars, fixedVars, labelVars, geoVars,
                  platformPermission, permHandlers, compassVars, lifecycle,
                  historyVars >>

\* A change of the grant that runs no onchange handler.
PlatformPermissionChangedUnobserved ==
  \E s \in GrantStates \ { platformPermission } :
    /\ caps.permissions = "status"
    /\ platformPermission' = s
    /\ UNCHANGED << progVars, derivedVars, fixedVars, labelVars, geoVars,
                    permQueries, permHandlers, compassVars, lifecycle,
                    historyVars >>

\* The user or the browser changes the grant the Permissions API reports;
\* every PermissionStatus with a handler runs it:
\* permissionState = status.state
PlatformPermissionChanged ==
  \E s \in GrantStates \ { platformPermission } :
    /\ caps.permissions = "status"
    /\ platformPermission' = s
    /\ permissionState' = IF permHandlers THEN s ELSE permissionState
    /\ UNCHANGED << currentPosition, errorMessage, watching, target, watchId,
                    highAccuracy, usingAbs, derivedVars, fixedVars, labelVars, geoVars,
                    permQueries, permHandlers, compassVars, lifecycle,
                    historyVars >>

\* The target latitude field, bind:value={target.lat}.
EditTargetLat ==
  \E v \in Latitudes \ { target.lat } :
    /\ lifecycle = "mounted"
    /\ target' = [ target EXCEPT !.lat = v ]
    /\ Reactive(currentPosition, target', headingDeg)
    /\ targetFromCurrent' = FALSE
    /\ UNCHANGED << currentPosition, errorMessage, permissionState, watching,
                    watchId, highAccuracy, usingAbs, headingDeg, fixedVars, labelVars, geoVars,
                    permVars, compassVars, lifecycle, stopped, clearWatchCalled,
                    lastReading, lastHeadingEvent >>

\* The target longitude field, bind:value={target.lon}.
EditTargetLon ==
  \E v \in Longitudes \ { target.lon } :
    /\ lifecycle = "mounted"
    /\ target' = [ target EXCEPT !.lon = v ]
    /\ Reactive(currentPosition, target', headingDeg)
    /\ targetFromCurrent' = FALSE
    /\ UNCHANGED << currentPosition, errorMessage, permissionState, watching,
                    watchId, highAccuracy, usingAbs, headingDeg, fixedVars, labelVars, geoVars,
                    permVars, compassVars, lifecycle, stopped, clearWatchCalled,
                    lastReading, lastHeadingEvent >>

\* The "use current position as target" button.
UseCurrentAsTargetClick ==
  /\ lifecycle = "mounted"
  /\ useCurrentAsTarget
  /\ targetFromCurrent' = (currentPosition # Null \/ targetFromCurrent)
  /\ UNCHANGED << currentPosition, errorMessage, permissionState, watching,
                  watchId, highAccuracy, usingAbs, headingDeg, fixedVars, labelVars, geoVars,
                  permVars, compassVars, lifecycle, stopped, clearWatchCalled,
                  lastReading, lastHeadingEvent >>

\* The "enable compass" button.
EnableCompassClick ==
  /\ lifecycle = "mounted"
  /\ caps.orientation = "gated" => compassRequests < MaxCompassRequests
  /\ enableCompass
  /\ UNCHANGED << progVars, derivedVars, fixedVars, labelVars, geoVars, permVars, lifecycle,
                  historyVars >>

\* D.requestPermission().then((res) => { if (res === 'granted') add(); })
CompassPermissionSettled ==
  \E res \in { "granted", "denied" } :
    /\ compassRequests > 0
    /\ compassRequests' = compassRequests - 1
    /\ orientationListening' =
         IF res = "granted" THEN TRUE ELSE orientationListening
    /\ UNCHANGED << progVars, derivedVars, fixedVars, labelVars, geoVars, permVars, lifecycle,
                    historyVars >>

\* The heading an orientation event carries, if any.
CarriesHeading(e) == e.webkitCompassHeading # Null \/ e.alpha # Null

\* window fires deviceorientationabsolute (onDOA) or deviceorientation (onDO).
OrientationEvent ==
  \E e \in OrientationEvents, absoluteEvent \in BOOLEAN :
    /\ orientationListening
    /\ caps.orientation # "none"
    /\ handleOrientation(e, absoluteEvent)
    /\ lastHeadingEvent' =
         IF CarriesHeading(e)
           THEN Some([ source |-> IF e.webkitCompassHeading # Null
                                    THEN "webkitCompassHeading" ELSE "alpha",
                       value |-> IF e.webkitCompassHeading # Null
                                   THEN e.webkitCompassHeading[1]
                                   ELSE e.alpha[1] ])
           ELSE lastHeadingEvent
    /\ UNCHANGED << currentPosition, errorMessage, permissionState, watching,
                    target, watchId, highAccuracy, fixedVars, labelVars, geoVars, permVars,
                    compassVars, lifecycle, stopped, clearWatchCalled,
                    lastReading, targetFromCurrent >>

\* onDestroy(() => { stopWatching(); removeEventListener(...) x 2 })
Destroy ==
  /\ lifecycle = "mounted"
  /\ lifecycle' = "destroyed"
  /\ stopWatching
  /\ orientationListening' = FALSE
  /\ stopped' = TRUE
  /\ UNCHANGED << currentPosition, errorMessage, permissionState, target,
                  highAccuracy, usingAbs, derivedVars, fixedVars, labelVars, nextWatchId,
                  permVars, compassRequests, lastReading, lastHeadingEvent,
                  targetFromCurrent >>

Next ==
  \/ Mount
  \/ StartClick
  \/ StopClick
  \/ GeoSuccess
  \/ GeoError
  \/ PermissionStatusResolved
  \/ PermissionQueryRejected
  \/ PlatformPermissionChanged
  \/ EditTargetLat
  \/ EditTargetLon
  \/ UseCurrentAsTargetClick
  \/ EnableCompassClick
  \/ CompassPermissionSettled
  \/ OrientationEvent
  \/ Destroy

Spec == Init /\ [][Next]_vars

\* ------------------------------------------------------------------------
\* degToCompass on its own (lines 250-254)

\* d: null, or a number of degrees in [0, 360).
CompassArgs == { Null } \cup { Some(d) : d \in 0..(Deg360 - 1) }

InitCompass ==
  /\ ScriptInit
  /\ compassArg \in CompassArgs
  /\ compassLabel = Null

\* The template evaluates degToCompass(d).
RenderCompass ==
  /\ compassLabel = Null
  /\ compassLabel' = Some(degToCompass(compassArg))
  /\ UNCHANGED << progVars, derivedVars, fixedVars, geoVars, permVars,
                  compassVars, lifecycle, compassArg, historyVars >>

NextCompass == RenderCompass

SpecCompass == InitCompass /\ [][NextCompass]_vars

TypeOK ==
  /\ currentPosition \in { Null } \cup { Some(r) : r \in Readings }
  /\ watching \in BOOLEAN
  /\ insideZone \in BOOLEAN
  /\ permissionState \in { "unknown" } \cup GrantStates
  /\ nextWatchId \in 0..MaxWatches
  /\ permQueries \in 0..(MaxWatches + 1)
  /\ compassRequests \in 0..MaxCompassRequests

\* ------------------------------------------------------------------------
\* Properties

\* What a position callback must not touch once the watch is stopped.
positionState == << currentPosition, headingDeg, distanceMeters, bearingDeg,
                    turnDeg, insideZone >>

\* C1: after stopWatching() has returned (and no start followed), no position
\* callback changes currentPosition, headingDeg, distanceMeters, bearingDeg,
\* turnDeg or insideZone.
NoPositionUpdateAfterStop ==
  [][(stopped /\ GeoSuccess) => UNCHANGED positionState]_vars

\* C2: at most one position subscription is registered with the platform, in
\* every reachable state.
AtMostOneSubscription == Cardinality(geoWatches) <= 1

\* C3: insideZone is true exactly when distanceMeters is non-null and at most
\* 15 metres; it is false when distanceMeters is null.
InsideZoneIffWithinRadius ==
  insideZone <=> (distanceMeters # Null /\ distanceMeters[1] <= 15)

\* A reading at the target has been delivered: the distance is known and the
\* zone is entered.
InsideZoneReached ==
  /\ lastReading # Null
  /\ distanceMeters # Null
  /\ insideZone

\* C4: as long as no position reading has been delivered, distanceMeters,
\* bearingDeg and turnDeg are null and insideZone is false.
NullBeforeFirstReading ==
  lastReading = Null =>
    /\ distanceMeters = Null
    /\ bearingDeg = Null
    /\ turnDeg = Null
    /\ insideZone = FALSE

\* No reading yet, after a watch reported an error, the compass gave a
\* heading and the target was edited.
BusyBeforeFirstReading ==
  /\ lastReading = Null
  /\ caps.geolocation
  /\ errorMessage # Null
  /\ headingDeg # Null
  /\ target # DefaultTarget

\* The messages of the recoverable errors.
RecoverableMessages == { Some(MsgPositionUnavailable), Some(MsgTimeout) }

\* C5: a position callback processed while the message of a recoverable error
\* (position unavailable, timeout) is shown leaves errorMessage null.
RecoverableErrorClearedBySuccess ==
  [][(GeoSuccess /\ errorMessage \in RecoverableMessages)
       => errorMessage' = Null]_vars

\* The message the error categories are to show.
CategoryMessage(code) ==
  IF code = 1 THEN "Permission denied. Please allow location access."
  ELSE IF code = 2
    THEN "Position unavailable. Try moving to an open area or check your connection."
  ELSE "Location request timed out. Try again."

\* C6: an error callback with code PERMISSION_DENIED, POSITION_UNAVAILABLE or
\* TIMEOUT sets errorMessage to the message of that category and leaves
\* currentPosition, target, headingDeg, distanceMeters, bearingDeg, turnDeg
\* and insideZone unchanged.
ErrorSetsCategoryMessageOnly ==
  [][\A w \in geoWatches, code \in ErrorCodes :
       GeoErrorOn(w, code) =>
         /\ errorMessage' = Some(CategoryMessage(code))
         /\ UNCHANGED << currentPosition, target, headingDeg, distanceMeters,
                         bearingDeg, turnDeg, insideZone >>]_vars

\* A timeout reported after a reading and a heading were taken.
ErrorAfterReading ==
  /\ errorMessage = Some(MsgTimeout)
  /\ currentPosition # Null
  /\ headingDeg # Null

\* C7: without geolocation, startWatching() sets the 'not supported' message,
\* registers no watch (watchId stays null), leaves watching false and starts
\* no permission query.
NotSupportedStartsNothing ==
  [][(StartClick /\ ~caps.geolocation) =>
       /\ errorMessage' = Some(MsgNotSupported)
       /\ watchId' = Null
       /\ geoWatches' = {}
       /\ watching' = FALSE
       /\ permQueries' = permQueries
       /\ permissionState' = permissionState]_vars

\* Start has been clicked in a browser without geolocation.
NotSupportedReported ==
  /\ ~caps.geolocation
  /\ errorMessage = Some(MsgNotSupported)

\* C8: stopWatching() run with watchId null and watching false calls no
\* clearWatch and changes no variable of the script.
StopWhenInactiveIsNoOp ==
  [][(Destroy /\ watchId = Null /\ ~watching) =>
       /\ clearWatchCalled' = FALSE
       /\ UNCHANGED << watchId, watching, currentPosition, target, headingDeg,
                       errorMessage, permissionState, distanceMeters,
                       bearingDeg, turnDeg, insideZone, usingAbs, highAccuracy,
                       geoWatches >>]_vars

\* The component was destroyed after its watch had been used and stopped:
\* onDestroy ran stopWatching() with nothing to stop.
StoppedWhileInactive ==
  /\ lifecycle = "destroyed"
  /\ clearWatchCalled = FALSE
  /\ lastReading # Null

\* v is null or an angle in [0, 360).
InRange(v) == v # Null => (0 <= v[1] /\ v[1] < 360 * DegUnit)

\* C9: headingDeg, bearingDeg and turnDeg are null or in [0, 360); turnDeg is
\* (bearingDeg - headingDeg + 360) mod 360 when both are non-null, else null.
AnglesInRangeAndTurnFormula ==
  /\ InRange(headingDeg)
  /\ InRange(bearingDeg)
  /\ InRange(turnDeg)
  /\ turnDeg =
       IF bearingDeg # Null /\ headingDeg # Null
         THEN Some((bearingDeg[1] - headingDeg[1] + 360 * DegUnit)
                     % (360 * DegUnit))
         ELSE Null

\* A turn is shown with the bearing at or past the heading, where the sum
\* bearing - heading + 360 reaches 360 and must wrap.
TurnWraps ==
  /\ turnDeg # Null
  /\ bearingDeg[1] >= headingDeg[1]

\* The normalised heading of an event that carried one.
NormalizedHeadingOf(ev) ==
  IF ev.source = "alpha"
    THEN (360 * DegUnit - ev.value + 360 * DegUnit) % (360 * DegUnit)
    ELSE (ev.value + 360 * DegUnit) % (360 * DegUnit)

\* C10: currentPosition is the last reading delivered, headingDeg the
\* normalised heading of the last event that carried one, and distanceMeters
\* and bearingDeg are the distance and bearing from that reading to the
\* current target.
DerivedReflectsLatest ==
  /\ currentPosition = lastReading
  /\ headingDeg = IF lastHeadingEvent = Null THEN Null
                  ELSE Some(NormalizedHeadingOf(lastHeadingEvent[1]))
  /\ distanceMeters =
       IF lastReading = Null THEN Null
       ELSE Some(haversineMeters(lastReading[1].latitude,
                                 lastReading[1].longitude,
                                 target.lat, target.lon))
  /\ bearingDeg =
       IF lastReading = Null THEN Null
       ELSE Some(initialBearing(lastReading[1].latitude,
                                lastReading[1].longitude,
                                target.lat, target.lon))

\* A reading, an orientation heading and a target edit have interleaved, and
\* the position shown is away from the target.
InterleavedUpdates ==
  /\ lastReading # Null
  /\ lastReading[1].heading.type = "NaN"
  /\ lastHeadingEvent # Null
  /\ lastHeadingEvent[1].source = "alpha"
  /\ target # DefaultTarget
  /\ distanceMeters # Null
  /\ distanceMeters[1] > 15

\* C11: with a position reading delivered and no heading ever delivered,
\* bearingDeg and turnDeg are both non-null while headingDeg is null.
TurnComputedWithoutHeading ==
  (lastReading # Null /\ lastHeadingEvent = Null) =>
    /\ headingDeg = Null
    /\ bearingDeg # Null
    /\ turnDeg # Null

\* The 16 compass points, clockwise from north, 22.5 degrees apart.
CompassPoints ==
  << "N", "NNE", "NE", "ENE", "E", "ESE", "SE", "SSE",
     "S", "SSW", "SW", "WSW", "W", "WNW", "NW", "NNW" >>

\* The angle between d and the k-th compass point, around the circle.
AngleToPoint(d, k) ==
  LET a == Abs(d - k * ((45 * DegUnit) \div 2))
  IN  IF 2 * a > 360 * DegUnit THEN 360 * DegUnit - a ELSE a

\* C12: for every d in [0, 360) degToCompass(d) is the abbreviation of a
\* nearest compass point; values from 348.75 up give N; 0, 90, 180 and 270
\* give N, E, S and W.
CompassLabelIsNearestPoint ==
  (compassLabel # Null /\ compassArg # Null) =>
    LET d == compassArg[1]
        label == compassLabel[1]
    IN  /\ \E k \in 0..15 :
             /\ label = CompassPoints[k + 1]
             /\ \A j \in 0..15 : AngleToPoint(d, k) <= AngleToPoint(d, j)
        /\ 4 * d >= 1395 * DegUnit => label = "N"
        /\ d = 0 => label = "N"
        /\ d = 90 * DegUnit => label = "E"
        /\ d = 180 * DegUnit => label = "S"
        /\ d = 270 * DegUnit => label = "W"

\* A value in the last half sector, 348.75 or more, has been labelled.
LabelledPastLastPoint ==
  /\ compassLabel # Null
  /\ compassArg # Null
  /\ 4 * compassArg[1] >= 1395 * DegUnit

\* C13: permissionState is one of unknown, prompt, granted, denied; once a
\* query has resolved with a status (its onchange handler is set) it equals
\* the platform's grant state, through later changes and later queries; where
\* the query is unsupported or fails it is unknown.
PermissionStateMirrorsPlatform ==
  /\ permissionState \in { "unknown", "prompt", "granted", "denied" }
  /\ permHandlers => permissionState = platformPermission
  /\ caps.permissions # "status" => permissionState = "unknown"

\* The grant was withdrawn after a reading was delivered, one query having
\* resolved and another still waiting.
DeniedAfterReading ==
  /\ permHandlers
  /\ permQueries > 0
  /\ lastReading # Null
  /\ platformPermission = "denied"

\* C14: useCurrentAsTarget() leaves target alone when there is no position;
\* with a position it sets target to that position's latitude and longitude,
\* and from then until the next reading or target edit distanceMeters is 0 and
\* insideZone is true.
UseCurrentSetsTargetToPosition ==
  [][/\ UseCurrentAsTargetClick =>
          IF currentPosition = Null
            THEN target' = target
            ELSE target' = [ lat |-> currentPosition[1].latitude,
                             lon |-> currentPosition[1].longitude ]
     /\ targetFromCurrent' =>
          (distanceMeters' = Some(0) /\ insideZone' = TRUE)]_vars

\* useCurrentAsTarget() has moved the target to the position, and a heading
\* has arrived since the last reading.
TargetMovedToPosition ==
  /\ targetFromCurrent
  /\ target # DefaultTarget
  /\ lastHeadingEvent # Null
  /\ lastHeadingEvent[1].source # "coords"

\* The watch whose id watchId holds is registered with the platform.
SubscriptionRegistered ==
  watchId # Null /\ \E w \in geoWatches : w.id = watchId[1]

\* C15: in every reachable state watching is true exactly when a position
\* subscription is registered (watchId non-null and not yet cleared).
WatchingIffSubscribed == watching <=> SubscriptionRegistered

\* C16: once onDestroy has run, no orientation listener is registered and
\* headingDeg does not change again, whenever a pending requestPermission()
\* promise settles.
NoCompassAfterDestroy ==
  [][lifecycle = "destroyed" =>
       (orientationListening' = FALSE /\ headingDeg' = headingDeg)]_vars

\* C17: stopWatching() run with a watch held clears that watch, sets watchId
\* to null and watching to false, and leaves currentPosition, target,
\* headingDeg, errorMessage, permissionState, distanceMeters, bearingDeg,
\* turnDeg and insideZone unchanged.
StopChangesOnlyTheWatch ==
  [][((StopClick \/ Destroy) /\ watchId # Null) =>
       /\ geoWatches' = { w \in geoWatches : w.id # watchId[1] }
       /\ clearWatchCalled' = TRUE
       /\ watchId' = Null
       /\ watching' = FALSE
       /\ UNCHANGED << currentPosition, target, headingDeg, errorMessage,
                       permissionState, distanceMeters, bearingDeg, turnDeg,
                       insideZone >>]_vars

\* A watch that had delivered a reading with a heading was stopped, and the
\* position and what derives from it are still shown.
PositionKeptAfterStop ==
  /\ stopped
  /\ clearWatchCalled
  /\ watchId = Null
  /\ currentPosition # Null
  /\ distanceMeters # Null
  /\ turnDeg # Null

====
